---- MODULE Spec2Model ----
(***************************************************************************)
(* A model of humlib's HumdrumLine: one row of a Humdrum file, its text,   *)
(* the tokens and tab widths cut from it, and the textual classification   *)
(* and reference-record accessors.  A text is a sequence of characters,    *)
(* each character a one-character string; C++ positions are 0-based and    *)
(* are kept 0-based in every operator that takes an index.                 *)
(***************************************************************************)
EXTENDS Integers, Sequences, FiniteSets, TLC

VARIABLES
    text,               \* the string base class of HumdrumLine
    m_tokens,           \* vector<HumdrumToken*>; an entry may be NULL
    m_tabs,             \* vector<int>: tab count after each token
    m_rhythm_analyzed,  \* the line's rhythm-analysis gate
    hist,               \* operations called on the line since construction
    text0,              \* the line's text right after construction
    tokens0,            \* m_tokens right after construction
    tabs0,              \* m_tabs right after construction
    csv,                \* argument of the CSV entry point
    separator,          \* argument of the CSV entry point
    overload,           \* the CSV entry point that was called, or "none"
    fileText,           \* text of line 0 of the file read by parseCsv
    csvSt,              \* the conversion loop of setLineFromCsv: i, inquote, output
    other,              \* the line that is assigned to this line
    m_address,          \* per token: spine info, track, subtrack, subtrack count
    m_owner,            \* "NULL" or "file"
    m_duration,
    m_durationFromStart,
    m_durationFromBarline,
    m_durationToBarline,
    analysis,           \* what the owner's rhythm analysis computes for this line
    call,               \* the last duration accessor call and what it returned
    m_lines,            \* the lines of a file
    m_trackstarts,      \* the tokens that open the file's tracks, entry 0 reserved
    m_analyses,         \* the file's analysis flags
    m_parseError        \* TRUE when the file's analysis reported a structural error

lineVars == <<text, m_tokens, m_tabs, m_rhythm_analyzed, hist, text0, tokens0, tabs0>>

csvVars == <<csv, separator, overload, fileText, csvSt>>

otherVars == <<other>>

trackVars == <<m_address>>

durVars == <<m_duration, m_durationFromStart, m_durationFromBarline, m_durationToBarline>>

rhythmVars == <<m_owner, durVars, analysis, call>>

fileVars == <<m_lines, m_trackstarts, m_analyses, m_parseError>>

vars == <<lineVars, csvVars, trackVars, rhythmVars, fileVars, otherVars>>

\* the parts of the state a specification does not exercise stay idle
NoLoop == [i |-> 0, inquote |-> FALSE, output |-> <<>>, steps |-> 0]

CsvIdle ==
    /\ csv = <<>> /\ separator = <<>> /\ overload = "none" /\ fileText = <<>>
    /\ csvSt = NoLoop

NoLine == [text |-> <<>>, tokens |-> <<>>, tabs |-> <<>>, durations |-> <<0, 0, 0, 0>>]

OtherIdle == other = NoLine

TrackIdle == m_address = <<>>

NoCall == [op |-> "none", scaled |-> FALSE, scale |-> 1, gate0 |-> FALSE,
           owner0 |-> "NULL", ret |-> 0, invoked |-> 0]

NoAnalysis == [duration |-> 0, fromStart |-> 0, fromBarline |-> 0, toBarline |-> 0,
               score |-> 0]

RhythmIdle ==
    /\ m_owner = "NULL"
    /\ m_duration = 0 /\ m_durationFromStart = 0
    /\ m_durationFromBarline = 0 /\ m_durationToBarline = 0
    /\ analysis = NoAnalysis
    /\ call = NoCall

NoTrackStarts == <<"reserved">>

NoAnalyses == [m_structure_analyzed |-> FALSE, m_rhythm_analyzed |-> FALSE]

FileIdle ==
    /\ m_lines = <<>>
    /\ m_trackstarts = NoTrackStarts
    /\ m_analyses = NoAnalyses
    /\ m_parseError = FALSE

-----------------------------------------------------------------------------
(* Bounds of the model *)

MaxLen == 4     \* longest row body drawn after a prefix
MaxOps == 2     \* operations called on a line after its construction
MaxCsvLen == 4  \* longest CSV row body
MaxTokens == 3  \* most tokens on a line whose tracks are analysed
MaxLines == 4   \* most lines of a file
MaxErrors == 1  \* most structural errors of a file that still grows

-----------------------------------------------------------------------------
(* Characters and std::string primitives *)

TAB == "\t"
CR  == "\r"
NUL == "NUL"

NPOS == -1

Alphabet == {"a", TAB, " ", ":", "!"}

Prefixes == { <<>>,
              <<"*">>,
              <<"=">>,
              <<"!", "!", "!">>,
              <<"!", "!", "!", "R", "D", "F", "*", "*">> }

Bodies == UNION { [1..k -> Alphabet] : k \in 0..MaxLen }

Rows == { p \o b : p \in Prefixes, b \in Bodies }

Min(a, b) == IF a < b THEN a ELSE b

At(s, i) == s[i + 1]

isspace(c) == c \in {" ", TAB, CR, "\n", "\f"}

\* string::find(ch): position of the first occurrence, or npos
find(s, c) ==
    IF \E i \in 1..Len(s) : s[i] = c
    THEN (CHOOSE i \in 1..Len(s) : s[i] = c /\ \A j \in 1..(i - 1) : s[j] # c) - 1
    ELSE NPOS

\* string::substr(pos, n) for pos <= size()
substr(s, pos, n) == SubSeq(s, pos + 1, Min(pos + n, Len(s)))

\* string::substr(pos) for pos <= size()
substrFrom(s, pos) == SubSeq(s, pos + 1, Len(s))

Front(s) == SubSeq(s, 1, Len(s) - 1)

equalChar(s, index, ch) ==
    IF Len(s) <= index THEN FALSE
    ELSE IF index < 0 THEN FALSE
    ELSE At(s, index) = ch

getChar(s, index) ==
    IF index < 0 THEN NUL
    ELSE IF index >= Len(s) THEN NUL
    ELSE At(s, index)

-----------------------------------------------------------------------------
(* Line classification, from the text alone *)

isComment(s) == equalChar(s, 0, "!")

isCommentLocal(s) == equalChar(s, 0, "!") /\ ~equalChar(s, 1, "!")

isCommentGlobal(s) == equalChar(s, 0, "!") /\ equalChar(s, 1, "!")

isCommentUniversal(s) ==
    equalChar(s, 3, "!") /\ equalChar(s, 2, "!") /\ equalChar(s, 1, "!") /\ equalChar(s, 0, "!")

isInterp(s) == equalChar(s, 0, "*")

isBarline(s) == equalChar(s, 0, "=")

isEmpty(s) == IF Len(s) = 0 THEN TRUE ELSE FALSE

isData_NoEmptyTest(s) ==
    IF isComment(s) \/ isInterp(s) \/ isBarline(s) THEN FALSE ELSE TRUE

isData(s) ==
    IF isComment(s) \/ isInterp(s) \/ isBarline(s) \/ isEmpty(s) THEN FALSE ELSE TRUE

hasSpines_AnyComment(s) == IF isEmpty(s) \/ isComment(s) THEN FALSE ELSE TRUE

hasSpines(s) == IF isEmpty(s) \/ isCommentGlobal(s) THEN FALSE ELSE TRUE

isGlobal(s) == ~hasSpines(s)

-----------------------------------------------------------------------------
(* Reference records *)

isGlobalReference(s) ==
    IF Len(s) < 5 THEN FALSE
    ELSE IF substr(s, 0, 3) # <<"!", "!", "!">> THEN FALSE
    ELSE IF At(s, 3) = "!" THEN FALSE
    ELSE LET spaceloc == find(s, " ")
             tabloc   == find(s, TAB)
             colloc   == find(s, ":")
         IN  IF colloc = NPOS THEN FALSE
             ELSE IF spaceloc # NPOS /\ spaceloc < colloc THEN FALSE
             ELSE IF tabloc # NPOS /\ tabloc < colloc THEN FALSE
             ELSE TRUE

isUniversalReference(s) ==
    IF Len(s) < 5 THEN FALSE
    ELSE IF substr(s, 0, 4) # <<"!", "!", "!", "!">> THEN FALSE
    ELSE IF At(s, 4) = "!" THEN FALSE
    ELSE LET spaceloc == find(s, " ")
             tabloc   == find(s, TAB)
             colloc   == find(s, ":")
         IN  IF colloc = NPOS THEN FALSE
             ELSE IF spaceloc # NPOS /\ spaceloc < colloc THEN FALSE
             ELSE IF tabloc # NPOS /\ tabloc < colloc THEN FALSE
             ELSE TRUE

isReference(s) == isGlobalReference(s) \/ isUniversalReference(s)

isSignifier(s) ==
    IF Len(s) < 9 THEN FALSE
    ELSE IF substr(s, 0, 8) # <<"!", "!", "!", "R", "D", "F", "*", "*">> THEN FALSE
    ELSE TRUE

\* for (i=index; i<limit; i++) { if (isspace(at(i))) { index++; continue; } break; }
RECURSIVE SkipSpace(_, _, _)
SkipSpace(s, index, limit) ==
    IF index < limit /\ isspace(At(s, index))
    THEN SkipSpace(s, index + 1, limit)
    ELSE index

\* the value accessors' trailing loop: drops trailing whitespace, stops at
\* the first character that is not whitespace
RECURSIVE TrimValueTail(_)
TrimValueTail(output) ==
    IF Len(output) > 0 /\ isspace(At(output, Len(output) - 1))
    THEN TrimValueTail(Front(output))
    ELSE output

\* the key accessors' trailing loop: visits every position i from the end
\* and drops the LAST character whenever the character at i is whitespace
RECURSIVE TrimKeyTail(_, _)
TrimKeyTail(output, i) ==
    IF i < 0 THEN output
    ELSE IF isspace(At(output, i)) THEN TrimKeyTail(Front(output), i - 1)
    ELSE TrimKeyTail(output, i - 1)

getUniversalReferenceValue(s) ==
    IF Len(s) < 6 THEN <<>>
    ELSE IF substr(s, 0, 4) # <<"!", "!", "!", "!">> THEN <<>>
    ELSE IF At(s, 4) = "!" THEN <<>>
    ELSE LET colloc == find(s, ":") IN
         IF colloc = NPOS THEN <<>>
         ELSE LET index == SkipSpace(s, colloc + 1, Len(s)) IN
              IF index >= Len(s) THEN <<>>
              ELSE TrimValueTail(substrFrom(s, index))

getGlobalReferenceValue(s) ==
    IF Len(s) < 6 THEN <<>>
    ELSE IF substr(s, 0, 3) # <<"!", "!", "!">> THEN <<>>
    ELSE IF At(s, 4) = "!" THEN <<>>
    ELSE LET colloc == find(s, ":") IN
         IF colloc = NPOS THEN <<>>
         ELSE LET index == SkipSpace(s, colloc + 1, Len(s)) IN
              IF index >= Len(s) THEN <<>>
              ELSE TrimValueTail(substrFrom(s, index))

getGlobalReferenceKey(s) ==
    IF Len(s) < 5 THEN <<>>
    ELSE IF substr(s, 0, 3) # <<"!", "!", "!">> THEN <<>>
    ELSE IF At(s, 3) = "!" THEN <<>>
    ELSE LET colloc == find(s, ":") IN
         IF colloc = NPOS THEN <<>>
         ELSE LET index == SkipSpace(s, 3, colloc) IN
              IF index >= colloc THEN <<>>
              ELSE LET output == substr(s, index, colloc - index)
                   IN  TrimKeyTail(output, Len(output) - 1)

getUniversalReferenceKey(s) ==
    IF Len(s) < 6 THEN <<>>
    ELSE IF substr(s, 0, 4) # <<"!", "!", "!", "!">> THEN <<>>
    ELSE IF At(s, 4) = "!" THEN <<>>
    ELSE LET colloc == find(s, ":") IN
         IF colloc = NPOS THEN <<>>
         ELSE LET index == SkipSpace(s, 4, colloc) IN
              IF index >= colloc THEN <<>>
              ELSE LET output == substr(s, index, colloc - index)
                   IN  TrimKeyTail(output, Len(output) - 1)

getReferenceKey(s) ==
    IF Len(s) < 4 THEN <<>>
    ELSE IF substr(s, 0, 3) # <<"!", "!", "!">> THEN <<>>
    ELSE IF At(s, 3) # "!" THEN getGlobalReferenceKey(s)
    ELSE getUniversalReferenceKey(s)

getReferenceValue(s) ==
    IF Len(s) < 4 THEN <<>>
    ELSE IF substr(s, 0, 3) # <<"!", "!", "!">> THEN <<>>
    ELSE IF At(s, 3) # "!" THEN getGlobalReferenceValue(s)
    ELSE getUniversalReferenceValue(s)

-----------------------------------------------------------------------------
(* Tokens.  A HumdrumToken is modelled by its text and its owning line;    *)
(* NullToken is the null pointer stored in m_tokens.                       *)

NewToken(txt) == [valid |-> TRUE, text |-> txt, owner |-> "this"]

NullToken == [valid |-> FALSE, text |-> <<>>, owner |-> "none"]

getTokenCount(tokens) == Len(tokens)

TokenTexts(tokens) ==
    [i \in 1..Len(tokens) |-> IF tokens[i].valid THEN tokens[i].text ELSE <<NUL>>]

-----------------------------------------------------------------------------
(* createTokensFromLine *)

\* a variant that treats every tab as a boundary of width one
TokenStep_NoCount(st, ch) ==
    IF ch = TAB
    THEN IF st.lastch # TAB
         THEN [tokens  |-> Append(st.tokens, NewToken(st.tstring)),
               tabs    |-> Append(st.tabs, 1),
               tstring |-> <<>>,
               lastch  |-> ch]
         ELSE [st EXCEPT !.lastch = ch]
    ELSE [st EXCEPT !.tstring = Append(@, ch), !.lastch = ch]

\* one iteration of the tab-splitting loop on character ch
TokenStep(st, ch) ==
    IF ch = TAB
    THEN IF st.lastch # TAB
         THEN [tokens  |-> Append(st.tokens, NewToken(st.tstring)),
               tabs    |-> Append(st.tabs, 1),
               tstring |-> <<>>,
               lastch  |-> ch]
         ELSE [st EXCEPT
                 !.tabs = IF Len(@) > 0 THEN [@ EXCEPT ![Len(@)] = @ + 1] ELSE @,
                 !.lastch = ch]
    ELSE [st EXCEPT !.tstring = Append(@, ch), !.lastch = ch]

RECURSIVE TokenLoop(_, _, _)
TokenLoop(s, i, st) ==
    IF i < Len(s) THEN TokenLoop(s, i + 1, TokenStep(st, getChar(s, i))) ELSE st

\* the final "if (tstring.size() > 0)" block
TokenFlush(st) ==
    IF Len(st.tstring) > 0
    THEN [tokens |-> Append(st.tokens, NewToken(st.tstring)),
          tabs   |-> Append(st.tabs, 0)]
    ELSE [tokens |-> st.tokens, tabs |-> st.tabs]

\* a variant without the global-comment branch
createTokensFromLine_SplitAll(s) ==
    LET start == [tokens |-> <<>>, tabs |-> <<>>, tstring |-> <<>>, lastch |-> NUL]
    IN  IF Len(s) = 0
        THEN TokenFlush([start EXCEPT !.tokens = <<NewToken(<<>>), NullToken>>])
        ELSE TokenFlush(TokenLoop(s, 0, start))

\* the new m_tokens and m_tabs of a line whose text is s
createTokensFromLine(s) ==
    LET start == [tokens |-> <<>>, tabs |-> <<>>, tstring |-> <<>>, lastch |-> NUL]
    IN  IF Len(s) = 0
        THEN TokenFlush([start EXCEPT !.tokens = <<NewToken(<<>>), NullToken>>])
        ELSE IF substr(s, 0, 2) = <<"!", "!">>
        THEN TokenFlush([start EXCEPT !.tokens = <<NewToken(s)>>, !.tabs = <<0>>])
        ELSE TokenFlush(TokenLoop(s, 0, start))

-----------------------------------------------------------------------------
(* createLineFromTokens *)

Tabs(n) == [j \in 1..n |-> TAB]

\* for (j=0; j < m_tokens.size() - m_tabs.size(); j++) m_tabs.push_back(1);
RECURSIVE PadTabs(_, _, _)
PadTabs(ntokens, tabs, j) ==
    IF j < ntokens - Len(tabs) THEN PadTabs(ntokens, Append(tabs, 1), j + 1) ELSE tabs

\* a variant that always joins with a single tab
RECURSIVE JoinLoop_OneTab(_, _, _, _)
JoinLoop_OneTab(tokens, tabs, i, iline) ==
    IF i >= Len(tokens) THEN [iline |-> iline, tabs |-> tabs]
    ELSE LET line1 == iline \o At(tokens, i).text IN
         IF i < Len(tokens) - 1
         THEN JoinLoop_OneTab(tokens, tabs, i + 1, line1 \o <<TAB>>)
         ELSE JoinLoop_OneTab(tokens, tabs, i + 1, line1)

\* the loop over the tokens, from token i on, with the text built so far
RECURSIVE JoinLoop(_, _, _, _)
JoinLoop(tokens, tabs, i, iline) ==
    IF i >= Len(tokens) THEN [iline |-> iline, tabs |-> tabs]
    ELSE LET line1 == iline \o At(tokens, i).text IN
         IF i < Len(tokens) - 1
         THEN LET tabs1 == IF Len(tabs) <= i THEN PadTabs(Len(tokens), tabs, 0) ELSE tabs
                  tabs2 == IF At(tabs1, i) = 0 THEN [tabs1 EXCEPT ![i + 1] = 1] ELSE tabs1
              IN  JoinLoop(tokens, tabs2, i + 1, line1 \o Tabs(At(tabs2, i)))
         ELSE JoinLoop(tokens, tabs, i + 1, line1)

\* a variant that keeps a trailing null entry of m_tokens
createLineFromTokens_KeepNull(tokens, tabs) ==
    LET r == JoinLoop(tokens, tabs, 0, <<>>)
    IN  [text |-> r.iline, tokens |-> tokens, tabs |-> r.tabs]

\* the new text, m_tokens and m_tabs
createLineFromTokens(tokens, tabs) ==
    LET tokens1 == IF Len(tokens) > 0 /\ ~tokens[Len(tokens)].valid
                   THEN Front(tokens) ELSE tokens
        r == JoinLoop(tokens1, tabs, 0, <<>>)
    IN  [text |-> r.iline, tokens |-> tokens1, tabs |-> r.tabs]

-----------------------------------------------------------------------------
(* The line object *)

\* HumdrumLine(const string& aString): drop one trailing CR, then tokenize
Construct(aString) ==
    LET s == IF Len(aString) > 0 /\ aString[Len(aString)] = CR
             THEN Front(aString) ELSE aString
        r == createTokensFromLine(s)
    IN  /\ text = s
        /\ m_tokens = r.tokens
        /\ m_tabs = r.tabs

Init ==
    /\ \E row \in Rows, eol \in {<<>>, <<CR>>} : Construct(row \o eol)
    /\ m_rhythm_analyzed = FALSE
    /\ hist = <<>>
    /\ text0 = text
    /\ tokens0 = m_tokens
    /\ tabs0 = m_tabs
    /\ CsvIdle
    /\ TrackIdle
    /\ RhythmIdle
    /\ FileIdle
    /\ OtherIdle

Ghosts == <<text0, tokens0, tabs0>>

CreateTokensFromLine ==
    /\ Len(hist) < MaxOps
    /\ LET r == createTokensFromLine(text) IN
         /\ m_tokens' = r.tokens
         /\ m_tabs' = r.tabs
    /\ hist' = Append(hist, "createTokensFromLine")
    /\ UNCHANGED <<text, m_rhythm_analyzed, Ghosts>>
    /\ UNCHANGED <<csvVars, trackVars, rhythmVars, fileVars, otherVars>>

CreateLineFromTokens ==
    /\ Len(hist) < MaxOps
    /\ LET r == createLineFromTokens(m_tokens, m_tabs) IN
         /\ text' = r.text
         /\ m_tokens' = r.tokens
         /\ m_tabs' = r.tabs
    /\ hist' = Append(hist, "createLineFromTokens")
    /\ UNCHANGED <<m_rhythm_analyzed, Ghosts>>
    /\ UNCHANGED <<csvVars, trackVars, rhythmVars, fileVars, otherVars>>

Clear ==
    /\ Len(hist) < MaxOps
    /\ m_tokens' = <<>>
    /\ m_tabs' = <<>>
    /\ m_rhythm_analyzed' = FALSE
    /\ hist' = Append(hist, "clear")
    /\ UNCHANGED <<text, Ghosts>>
    /\ UNCHANGED <<csvVars, trackVars, rhythmVars, fileVars, otherVars>>

Next ==
    \/ CreateTokensFromLine
    \/ CreateLineFromTokens
    \/ Clear

Spec == Init /\ [][Next]_vars

-----------------------------------------------------------------------------
(* setLineFromCsv *)

QUOTE == "\""

DefaultSeparator == <<",">>

CsvAlphabet == {"a", ",", ";", QUOTE}

Separators == { <<",">>, <<";">>, <<";", ";">>, <<QUOTE>> }

CsvRows ==
    { p \o b \o e : p \in {<<>>, <<"!", "!">>},
                    b \in UNION { [1..k -> CsvAlphabet] : k \in 0..MaxCsvLen },
                    e \in {<<>>, <<CR>>} }

\* a variant that replaces the separator inside quotes too
CsvStep_NoQuoteTest(newcsv, sep, st) ==
    LET i == st.i
        c == At(newcsv, i)
        c1 == IF i + 1 < Len(newcsv) THEN At(newcsv, i + 1) ELSE NUL
    IN  IF c = QUOTE /\ ~st.inquote
        THEN [st EXCEPT !.inquote = TRUE, !.i = i + 1]
        ELSE IF st.inquote /\ c = QUOTE /\ c1 = QUOTE /\ i < Len(newcsv) - 1
        THEN [st EXCEPT !.output = Append(@, QUOTE), !.i = i + 2]
        ELSE IF c = QUOTE
        THEN [st EXCEPT !.inquote = FALSE, !.i = i + 1]
        ELSE IF substr(newcsv, i, Len(sep)) = sep
        THEN [st EXCEPT !.output = Append(@, TAB), !.i = i + (Len(sep) - 1) + 1]
        ELSE [st EXCEPT !.output = Append(@, c), !.i = i + 1]

\* one iteration of the conversion loop, the loop's i++ included;
\* newcsv[size()] reads as the terminating NUL
CsvStep(newcsv, sep, st) ==
    LET i == st.i
        c == At(newcsv, i)
        c1 == IF i + 1 < Len(newcsv) THEN At(newcsv, i + 1) ELSE NUL
    IN  IF c = QUOTE /\ ~st.inquote
        THEN [st EXCEPT !.inquote = TRUE, !.i = i + 1]
        ELSE IF st.inquote /\ c = QUOTE /\ c1 = QUOTE /\ i < Len(newcsv) - 1
        THEN [st EXCEPT !.output = Append(@, QUOTE), !.i = i + 2]
        ELSE IF c = QUOTE
        THEN [st EXCEPT !.inquote = FALSE, !.i = i + 1]
        ELSE IF ~st.inquote /\ substr(newcsv, i, Len(sep)) = sep
        THEN [st EXCEPT !.output = Append(@, TAB), !.i = i + (Len(sep) - 1) + 1]
        ELSE [st EXCEPT !.output = Append(@, c), !.i = i + 1]

RECURSIVE CsvLoop(_, _, _)
CsvLoop(newcsv, sep, st) ==
    IF st.i < Len(newcsv) THEN CsvLoop(newcsv, sep, CsvStep(newcsv, sep, st)) ELSE st

\* setLineFromCsv(const string& csv, const string& separator): the new text
\* of a line whose text was oldtext
setLineFromCsv(csvtext, sep, oldtext) ==
    IF Len(csvtext) < 1 THEN oldtext
    ELSE LET newcsv == IF csvtext[Len(csvtext)] = CR THEN Front(csvtext) ELSE csvtext
         IN  IF Len(newcsv) >= 2 /\ At(newcsv, 0) = "!" /\ At(newcsv, 1) = "!"
             THEN newcsv
             ELSE CsvLoop(newcsv, sep, [i |-> 0, inquote |-> FALSE, output |-> <<>>]).output

\* setLineFromCsv(const char* csv, const string& separator)
setLineFromCsvCStr(csvtext, sep, oldtext) ==
    setLineFromCsv(csvtext, DefaultSeparator, oldtext)

\* readStringCsv on contents of one row: the text of line 0 of the file
readStringCsv(contents, sep) == setLineFromCsv(contents, sep, <<>>)

\* parseCsv(const std::string& contents, const std::string& separator)
parseCsv(contents, sep) == readStringCsv(contents, DefaultSeparator)

InitCsv ==
    /\ \E prior \in {<<>>, <<"a">>} : Construct(prior)
    /\ m_rhythm_analyzed = FALSE
    /\ hist = <<>>
    /\ text0 = text
    /\ tokens0 = m_tokens
    /\ tabs0 = m_tabs
    /\ csv \in CsvRows
    /\ separator \in Separators
    /\ overload = "none"
    /\ fileText = <<>>
    /\ csvSt = NoLoop
    /\ TrackIdle
    /\ RhythmIdle
    /\ FileIdle
    /\ OtherIdle

SetLineFromCsv ==
    /\ overload = "none"
    /\ overload' = "string"
    /\ text' = setLineFromCsv(csv, separator, text)
    /\ UNCHANGED <<m_tokens, m_tabs, m_rhythm_analyzed, hist, Ghosts>>
    /\ UNCHANGED <<csv, separator, fileText, csvSt, trackVars, rhythmVars, fileVars, otherVars>>

SetLineFromCsvCStr ==
    /\ overload = "none"
    /\ overload' = "cstr"
    /\ text' = setLineFromCsvCStr(csv, separator, text)
    /\ UNCHANGED <<m_tokens, m_tabs, m_rhythm_analyzed, hist, Ghosts>>
    /\ UNCHANGED <<csv, separator, fileText, csvSt, trackVars, rhythmVars, fileVars, otherVars>>

ParseCsv ==
    /\ overload = "none"
    /\ overload' = "parseCsv"
    /\ fileText' = parseCsv(csv, separator)
    /\ UNCHANGED lineVars
    /\ UNCHANGED <<csv, separator, csvSt, trackVars, rhythmVars, fileVars, otherVars>>

NextCsv ==
    \/ SetLineFromCsv
    \/ SetLineFromCsvCStr
    \/ ParseCsv

SpecCsv == InitCsv /\ [][NextCsv]_vars

\* the row the loop converts: the argument without one trailing carriage return
newcsvOf(csvtext) ==
    IF Len(csvtext) > 0 /\ csvtext[Len(csvtext)] = CR THEN Front(csvtext) ELSE csvtext

\* the rows for which setLineFromCsv enters its loop
LoopRows ==
    { r \in CsvRows :
        /\ Len(r) >= 1
        /\ ~(Len(newcsvOf(r)) >= 2 /\ At(newcsvOf(r), 0) = "!" /\ At(newcsvOf(r), 1) = "!") }

LoopSeparators == Separators \cup {<<>>}

InitCsvLoop ==
    /\ Construct(<<>>)
    /\ m_rhythm_analyzed = FALSE
    /\ hist = <<>>
    /\ text0 = text
    /\ tokens0 = m_tokens
    /\ tabs0 = m_tabs
    /\ csv \in LoopRows
    /\ separator \in LoopSeparators
    /\ overload = "none"
    /\ fileText = <<>>
    /\ csvSt = NoLoop
    /\ TrackIdle
    /\ RhythmIdle
    /\ FileIdle
    /\ OtherIdle

\* one iteration of the loop of setLineFromCsv; the iterations are counted
\* up to one more than the length of the row
CsvIterate ==
    /\ overload = "none"
    /\ csvSt.i < Len(newcsvOf(csv))
    /\ csvSt.steps <= Len(newcsvOf(csv))
    /\ csvSt' = [CsvStep(newcsvOf(csv), separator, csvSt) EXCEPT !.steps = @ + 1]
    /\ UNCHANGED <<lineVars, csv, separator, overload, fileText>>
    /\ UNCHANGED <<trackVars, rhythmVars, fileVars, otherVars>>

\* the loop has ended: value = output
CsvAssign ==
    /\ overload = "none"
    /\ csvSt.i >= Len(newcsvOf(csv))
    /\ overload' = "string"
    /\ text' = csvSt.output
    /\ UNCHANGED <<m_tokens, m_tabs, m_rhythm_analyzed, hist, Ghosts>>
    /\ UNCHANGED <<csv, separator, fileText, csvSt>>
    /\ UNCHANGED <<trackVars, rhythmVars, fileVars, otherVars>>

NextCsvLoop ==
    \/ CsvIterate
    \/ CsvAssign

SpecCsvLoop == InitCsvLoop /\ [][NextCsvLoop]_vars

-----------------------------------------------------------------------------
(* analyzeTracks *)

Digits == {"0", "1", "2", "3", "4", "5", "6", "7", "8", "9"}

isdigit(c) == c \in Digits

\* c - '0'
DigitValue(c) ==
    CASE c = "0" -> 0 [] c = "1" -> 1 [] c = "2" -> 2 [] c = "3" -> 3
      [] c = "4" -> 4 [] c = "5" -> 5 [] c = "6" -> 6 [] c = "7" -> 7
      [] c = "8" -> 8 [] c = "9" -> 9

\* the inner loop over k: the digits that follow the first one
RECURSIVE TrackDigits(_, _, _)
TrackDigits(info, k, track) ==
    IF k < Len(info) /\ isdigit(At(info, k))
    THEN TrackDigits(info, k + 1, track * 10 + DigitValue(At(info, k)))
    ELSE track

\* a variant that reads the number only at the head of the spine info
ParseTrack_LeadingOnly(info, j) ==
    IF j >= Len(info) THEN 0
    ELSE IF ~isdigit(At(info, j)) THEN 0
    ELSE TrackDigits(info, j + 1, DigitValue(At(info, j)))

\* the loop over j: the track number read from a spine info string
RECURSIVE ParseTrack(_, _)
ParseTrack(info, j) ==
    IF j >= Len(info) THEN 0
    ELSE IF ~isdigit(At(info, j)) THEN ParseTrack(info, j + 1)
    ELSE TrackDigits(info, j + 1, DigitValue(At(info, j)))

\* a token whose address has not been analysed
UnsetAddress(info) ==
    [spineinfo |-> info, track |-> -1, subtrack |-> -1, subtrackcount |-> 0]

\* a variant that numbers the subtracks from 0
SubtrackLoop_FromZero(addr, i, subtracks, cursub) ==
    LET track == addr[i + 1].track
        subtrack == subtracks[track]
    IN  IF subtrack > 1
        THEN <<[addr[i + 1] EXCEPT !.subtrack = cursub[track],
                                   !.subtrackcount = subtracks[track]],
               [cursub EXCEPT ![track] = @ + 1]>>
        ELSE <<[addr[i + 1] EXCEPT !.subtrack = 0,
                                   !.subtrackcount = subtracks[track]],
               cursub>>

\* one iteration of the last loop: the address of token i and the new cursub
SubtrackLoop(addr, i, subtracks, cursub) ==
    LET track == addr[i + 1].track
        subtrack == subtracks[track]
    IN  IF subtrack > 1
        THEN <<[addr[i + 1] EXCEPT !.subtrack = cursub[track] + 1,
                                   !.subtrackcount = subtracks[track]],
               [cursub EXCEPT ![track] = @ + 1]>>
        ELSE <<[addr[i + 1] EXCEPT !.subtrack = 0,
                                   !.subtrackcount = subtracks[track]],
               cursub>>

RECURSIVE SubtrackPass(_, _, _, _, _)
SubtrackPass(addr, i, subtracks, cursub, out) ==
    IF i >= Len(addr) THEN out
    ELSE LET r == SubtrackLoop(addr, i, subtracks, cursub)
         IN  SubtrackPass(addr, i + 1, subtracks, r[2], Append(out, r[1]))

\* analyzeTracks on a line of the given text: the tokens' new addresses
analyzeTracks(linetext, addr) ==
    IF ~hasSpines(linetext) THEN addr
    ELSE LET tracked == [i \in 1..Len(addr) |->
                            [addr[i] EXCEPT !.track = ParseTrack(addr[i].spineinfo, 0)]]
             maxtrack == IF Len(tracked) = 0 THEN 0
                         ELSE LET m == CHOOSE mm \in {tracked[i].track : i \in 1..Len(tracked)} :
                                         \A i \in 1..Len(tracked) : tracked[i].track <= mm
                              IN  IF m > 0 THEN m ELSE 0
             subtracks == [t \in 0..maxtrack |->
                              Cardinality({i \in 1..Len(tracked) : tracked[i].track = t})]
             cursub == [t \in 0..maxtrack |-> 0]
         IN  SubtrackPass(tracked, 0, subtracks, cursub, <<>>)

SpineInfos ==
    { <<>>, <<"1">>, <<"2">>, <<"1", "0">>,
      <<"(", "1", ")", "a">>, <<"(", "1", ")", "b">>, <<"1", " ", "2">> }

\* a row of n one-character fields
RECURSIVE FieldsRow(_)
FieldsRow(n) == IF n <= 1 THEN <<"a">> ELSE FieldsRow(n - 1) \o <<TAB, "a">>

InitTracks ==
    /\ \/ \E n \in 1..MaxTokens : \E infos \in [1..n -> SpineInfos] :
            /\ Construct(FieldsRow(n))
            /\ m_address = [i \in 1..n |-> UnsetAddress(infos[i])]
       \/ /\ Construct(<<"!", "!", "a">>)
          /\ m_address = <<UnsetAddress(<<>>)>>
    /\ m_rhythm_analyzed = FALSE
    /\ hist = <<>>
    /\ text0 = text
    /\ tokens0 = m_tokens
    /\ tabs0 = m_tabs
    /\ CsvIdle
    /\ RhythmIdle
    /\ FileIdle
    /\ OtherIdle

AnalyzeTracks ==
    /\ Len(hist) < MaxOps
    /\ hist' = Append(hist, "analyzeTracks")
    /\ m_address' = analyzeTracks(text, m_address)
    /\ UNCHANGED <<text, m_tokens, m_tabs, m_rhythm_analyzed, Ghosts>>
    /\ UNCHANGED <<csvVars, rhythmVars, fileVars, otherVars>>

NextTracks == AnalyzeTracks

SpecTracks == InitTracks /\ [][NextTracks]_vars

-----------------------------------------------------------------------------
(* Duration fields, their accessors and the rhythm-analyzed gate *)

\* a default-constructed HumNum
HumNumDefault == 0

Scales == {2}

CallShapes == {[scaled |-> FALSE, scale |-> 1]} \cup {[scaled |-> TRUE, scale |-> k] : k \in Scales}

Analyses ==
    { [duration |-> 1, fromStart |-> 2, fromBarline |-> 1, toBarline |-> 3, score |-> 6],
      [duration |-> 0, fromStart |-> 4, fromBarline |-> 0, toBarline |-> 2, score |-> 6] }

\* what a build may return for getScoreDuration() called through a null owner
UndefinedScores == {-1, 0, 1}

RhythmRows == { <<"a">>, <<"=", "a">>, <<"a", TAB, "a">> }

\* the fields of the line an accessor reads and writes
ThisLine ==
    [gate |-> m_rhythm_analyzed, owner |-> m_owner, an |-> analysis, invoked |-> 0,
     duration |-> m_duration, fromStart |-> m_durationFromStart,
     fromBarline |-> m_durationFromBarline, toBarline |-> m_durationToBarline]

\* a variant that does not store the duration from the start
setDurationFromStart_Keep(ln, dur) == ln

setDurationFromStart(ln, dur) == [ln EXCEPT !.fromStart = dur]

setDurationFromBarline(ln, dur) == [ln EXCEPT !.fromBarline = dur]

\* a variant that does not store the duration to the barline
setDurationToBarline_Keep(ln, dur) == ln

setDurationToBarline(ln, dur) == [ln EXCEPT !.toBarline = dur]

\* a variant that stores a negative duration as it is
setDuration_NoClamp(ln, dur) == [ln EXCEPT !.duration = dur]

\* setDuration stores zero for a negative duration
setDuration(ln, dur) == [ln EXCEPT !.duration = IF dur >= 0 THEN dur ELSE 0]

\* the owner's rhythm analysis, as far as this line sees it
analyzeRhythmStructure(ln) ==
    LET a == setDuration(ln, ln.an.duration)
        b == setDurationFromStart(a, ln.an.fromStart)
        c == setDurationFromBarline(b, ln.an.fromBarline)
        d == setDurationToBarline(c, ln.an.toBarline)
    IN  [d EXCEPT !.gate = TRUE, !.invoked = @ + 1]

getScoreDuration(ln) == ln.an.score

\* a variant that runs the owner's analysis whatever the gate says
RhythmGate_NoGate(ln) ==
    IF ln.owner # "NULL" THEN analyzeRhythmStructure(ln) ELSE ln

\* if (!m_rhythm_analyzed) { if (getOwner()) { getOwner()->analyzeRhythmStructure(); } }
RhythmGate(ln) ==
    IF ~ln.gate
    THEN IF ln.owner # "NULL" THEN analyzeRhythmStructure(ln) ELSE ln
    ELSE ln

getDuration(ln) ==
    LET l == RhythmGate(ln) IN [ln |-> l, rets |-> {l.duration}]

getDurationScaled(ln, scale) ==
    LET l == RhythmGate(ln) IN [ln |-> l, rets |-> {l.duration * scale}]

getDurationFromStart(ln) ==
    LET l == RhythmGate(ln) IN [ln |-> l, rets |-> {l.fromStart}]

getDurationFromStartScaled(ln, scale) ==
    LET l == RhythmGate(ln) IN [ln |-> l, rets |-> {l.fromStart * scale}]

\* returns 0 when the gate is set; calls getScoreDuration() on the owner
\* otherwise, null or not
getDurationToEnd(ln) ==
    IF ~ln.gate
    THEN LET l == RhythmGate(ln)
         IN  [ln |-> l,
              rets |-> IF l.owner # "NULL" THEN {getScoreDuration(l) - l.fromStart}
                       ELSE {u - l.fromStart : u \in UndefinedScores}]
    ELSE [ln |-> ln, rets |-> {0}]

getDurationToEndScaled(ln, scale) ==
    IF ~ln.gate
    THEN LET l == RhythmGate(ln)
         IN  [ln |-> l,
              rets |-> IF l.owner # "NULL" THEN {scale * (getScoreDuration(l) - l.fromStart)}
                       ELSE {scale * (u - l.fromStart) : u \in UndefinedScores}]
    ELSE [ln |-> ln, rets |-> {0}]

getDurationFromBarline(ln) ==
    LET l == RhythmGate(ln) IN [ln |-> l, rets |-> {l.fromBarline}]

getDurationFromBarlineScaled(ln, scale) ==
    LET l == RhythmGate(ln) IN [ln |-> l, rets |-> {l.fromBarline * scale}]

getDurationToBarline(ln) ==
    LET l == RhythmGate(ln) IN [ln |-> l, rets |-> {l.toBarline}]

getDurationToBarlineScaled(ln, scale) ==
    LET l == RhythmGate(ln) IN [ln |-> l, rets |-> {l.toBarline * scale}]

\* a variant that returns the duration to the next barline on every line
getBarlineDuration_ToBarlineOnly(ln, linetext) ==
    LET l == RhythmGate(ln) IN getDurationToBarline(l)

getBarlineDuration(ln, linetext) ==
    LET l == RhythmGate(ln)
    IN  IF isBarline(linetext) THEN getDurationToBarline(l)
        ELSE LET f == getDurationFromBarline(l)
                 t == getDurationToBarline(f.ln)
             IN  [ln |-> t.ln, rets |-> {x + y : x \in f.rets, y \in t.rets}]

getBarlineDurationScaled(ln, linetext, scale) ==
    LET l == RhythmGate(ln)
    IN  IF isBarline(linetext) THEN getDurationToBarlineScaled(l, scale)
        ELSE LET f == getDurationFromBarlineScaled(l, scale)
                 t == getDurationToBarlineScaled(f.ln, scale)
             IN  [ln |-> t.ln, rets |-> {x + y : x \in f.rets, y \in t.rets}]

\* new HumdrumToken(token): setOwner is not called on it
FreshToken(txt) == [valid |-> TRUE, text |-> txt, owner |-> "none"]

appendToken(toks, tabs, txt, tabcount) ==
    [tokens |-> Append(toks, FreshToken(txt)), tabs |-> Append(tabs, tabcount)]

\* vector insert before position index (0-based)
InsertAt(seq, index, x) ==
    SubSeq(seq, 1, index) \o <<x>> \o SubSeq(seq, index + 1, Len(seq))

insertToken(toks, tabs, index, txt, tabcount) ==
    [tokens |-> InsertAt(toks, index, FreshToken(txt)),
     tabs |-> InsertAt(tabs, index, tabcount)]

\* the constructors' assignments to the duration fields and the owner
ConstructRhythm ==
    /\ m_owner = "NULL"
    /\ m_duration = -1
    /\ m_durationFromStart = -1
    /\ m_durationFromBarline = HumNumDefault
    /\ m_durationToBarline = HumNumDefault

InitRhythm ==
    /\ \E row \in RhythmRows : Construct(row)
    /\ ConstructRhythm
    /\ m_rhythm_analyzed = FALSE
    /\ hist = <<>>
    /\ text0 = text
    /\ tokens0 = m_tokens
    /\ tabs0 = m_tabs
    /\ analysis \in Analyses
    /\ call = NoCall
    /\ CsvIdle
    /\ TrackIdle
    /\ FileIdle
    /\ OtherIdle

\* the state of the line after an accessor call, and the record of the call
Returned(op, cs, r) ==
    /\ Len(hist) < MaxOps
    /\ hist' = Append(hist, op)
    /\ m_rhythm_analyzed' = r.ln.gate
    /\ m_duration' = r.ln.duration
    /\ m_durationFromStart' = r.ln.fromStart
    /\ m_durationFromBarline' = r.ln.fromBarline
    /\ m_durationToBarline' = r.ln.toBarline
    /\ \E v \in r.rets :
         call' = [op |-> op, scaled |-> cs.scaled, scale |-> cs.scale,
                  gate0 |-> m_rhythm_analyzed, owner0 |-> m_owner,
                  ret |-> v, invoked |-> r.ln.invoked]
    /\ UNCHANGED <<text, m_tokens, m_tabs, Ghosts, m_owner, analysis>>
    /\ UNCHANGED <<csvVars, trackVars, fileVars, otherVars>>

GetDuration ==
    \E cs \in CallShapes :
        Returned("getDuration", cs,
                 IF cs.scaled THEN getDurationScaled(ThisLine, cs.scale)
                 ELSE getDuration(ThisLine))

GetBarlineDuration ==
    \E cs \in CallShapes :
        Returned("getBarlineDuration", cs,
                 IF cs.scaled THEN getBarlineDurationScaled(ThisLine, text, cs.scale)
                 ELSE getBarlineDuration(ThisLine, text))

GetDurationFromStart ==
    \E cs \in CallShapes :
        Returned("getDurationFromStart", cs,
                 IF cs.scaled THEN getDurationFromStartScaled(ThisLine, cs.scale)
                 ELSE getDurationFromStart(ThisLine))

GetDurationToEnd ==
    \E cs \in CallShapes :
        Returned("getDurationToEnd", cs,
                 IF cs.scaled THEN getDurationToEndScaled(ThisLine, cs.scale)
                 ELSE getDurationToEnd(ThisLine))

GetDurationFromBarline ==
    \E cs \in CallShapes :
        Returned("getDurationFromBarline", cs,
                 IF cs.scaled THEN getDurationFromBarlineScaled(ThisLine, cs.scale)
                 ELSE getDurationFromBarline(ThisLine))

GetDurationToBarline ==
    \E cs \in CallShapes :
        Returned("getDurationToBarline", cs,
                 IF cs.scaled THEN getDurationToBarlineScaled(ThisLine, cs.scale)
                 ELSE getDurationToBarline(ThisLine))

\* the file takes the line
SetOwner ==
    /\ m_owner = "NULL"
    /\ m_owner' = "file"
    /\ UNCHANGED <<lineVars, durVars, analysis, call>>
    /\ UNCHANGED <<csvVars, trackVars, fileVars, otherVars>>

\* the owning file analyses its rhythm
AnalyzeRhythmStructure ==
    /\ Len(hist) < MaxOps
    /\ m_owner = "file"
    /\ hist' = Append(hist, "analyzeRhythmStructure")
    /\ LET l == analyzeRhythmStructure(ThisLine) IN
         /\ m_rhythm_analyzed' = l.gate
         /\ m_duration' = l.duration
         /\ m_durationFromStart' = l.fromStart
         /\ m_durationFromBarline' = l.fromBarline
         /\ m_durationToBarline' = l.toBarline
    /\ UNCHANGED <<text, m_tokens, m_tabs, Ghosts, m_owner, analysis, call>>
    /\ UNCHANGED <<csvVars, trackVars, fileVars, otherVars>>

AppendToken ==
    /\ Len(hist) < MaxOps
    /\ hist' = Append(hist, "appendToken")
    /\ LET r == appendToken(m_tokens, m_tabs, <<"a">>, 1) IN
         /\ m_tokens' = r.tokens
         /\ m_tabs' = r.tabs
    /\ UNCHANGED <<text, m_rhythm_analyzed, Ghosts, rhythmVars>>
    /\ UNCHANGED <<csvVars, trackVars, fileVars, otherVars>>

InsertToken ==
    /\ Len(hist) < MaxOps
    /\ hist' = Append(hist, "insertToken")
    /\ \E index \in 0..Min(Len(m_tokens), Len(m_tabs)) :
         LET r == insertToken(m_tokens, m_tabs, index, <<"a">>, 1) IN
           /\ m_tokens' = r.tokens
           /\ m_tabs' = r.tabs
    /\ UNCHANGED <<text, m_rhythm_analyzed, Ghosts, rhythmVars>>
    /\ UNCHANGED <<csvVars, trackVars, fileVars, otherVars>>

NextRhythm ==
    \/ SetOwner
    \/ AnalyzeRhythmStructure
    \/ GetDuration
    \/ GetBarlineDuration
    \/ GetDurationFromStart
    \/ GetDurationToEnd
    \/ GetDurationFromBarline
    \/ GetDurationToBarline
    \/ AppendToken
    \/ InsertToken
    \/ CreateTokensFromLine
    \/ Clear

SpecRhythm == InitRhythm /\ [][NextRhythm]_vars

-----------------------------------------------------------------------------
(* The file: spine analysis, stitching, tracks and duration propagation *)

XS == <<"*", "*">>        \* exclusive interpretation start
TERM == <<"*", "-">>      \* spine terminator
SPLIT == <<"*", "^">>
MERGE == <<"*", "v">>
XCH == <<"*", "x">>
ADD == <<"*", "+">>
NI == <<"*">>             \* null interpretation
GC == <<"!", "!">>        \* a global comment
BAR == <<"=">>            \* a barline token

FileRows ==
    { <<XS>>, <<XS, XS>>, <<NI>>, <<NI, NI>>, <<NI, XS>>,
      <<<<"a">>>>, <<<<"b">>>>, <<<<"b">>, <<"a">>>>,
      <<SPLIT>>, <<MERGE, MERGE>>, <<XCH, XCH>>, <<ADD>>,
      <<TERM>>, <<TERM, TERM>>, <<NI, TERM>>,
      <<BAR>>, <<BAR, BAR>>,
      <<GC>> }

\* the duration the rhythm decoder gives a token
TokenDuration(txt) ==
    IF txt = <<"a">> THEN 1 ELSE IF txt = <<"b">> THEN 2 ELSE 0

FileToken(txt) ==
    [text |-> txt, prev |-> {}, next |-> {}] @@ UnsetAddress(<<>>)

FileLine(row) ==
    [tokens |-> [j \in 1..Len(row) |-> FileToken(row[j])],
     gate |-> FALSE, duration |-> -1, fromStart |-> -1,
     fromBarline |-> HumNumDefault, toBarline |-> HumNumDefault]

\* the text of a line of the file
LineText(ln) ==
    createLineFromTokens([j \in 1..Len(ln.tokens) |-> NewToken(ln.tokens[j].text)], <<>>).text

DigitChar(d) == CHOOSE c \in Digits : DigitValue(c) = d

RECURSIVE ToDecimal(_)
ToDecimal(n) ==
    IF n < 10 THEN <<DigitChar(n)>> ELSE ToDecimal(n \div 10) \o <<DigitChar(n % 10)>>

\* the spine info of the spine that two adjacent merged spines fold into
getMergedSpineInfo(x, y) ==
    IF /\ Len(x) >= 4 /\ Len(y) = Len(x)
       /\ x[1] = "(" /\ x[Len(x) - 1] = ")"
       /\ x[Len(x)] = "a" /\ y[Len(y)] = "b"
       /\ SubSeq(x, 1, Len(x) - 1) = SubSeq(y, 1, Len(y) - 1)
    THEN SubSeq(x, 2, Len(x) - 2)
    ELSE x \o <<" ">> \o y

Column(src, info) == [src |-> src, info |-> info, fresh |-> FALSE]

FreshColumn == [src |-> 0, info |-> <<>>, fresh |-> TRUE]

\* the number of adjacent merge tokens from token j on
RECURSIVE MergeRun(_, _)
MergeRun(toks, j) ==
    IF j <= Len(toks) /\ toks[j].text = MERGE /\ toks[j].spineinfo # <<>>
    THEN 1 + MergeRun(toks, j + 1) ELSE 0

RECURSIVE MergedInfo(_, _, _)
MergedInfo(toks, j, n) ==
    IF n = 1 THEN toks[j].spineinfo
    ELSE getMergedSpineInfo(MergedInfo(toks, j, n - 1), toks[j + n - 1].spineinfo)

\* the columns the line after a line of tokens toks has, from token j on:
\* for each, the token of toks it continues and its spine info
RECURSIVE OutCols(_, _)
OutCols(toks, j) ==
    IF j > Len(toks) THEN <<>>
    ELSE LET t == toks[j]
             info == t.spineinfo
         IN  IF info = <<>> \/ t.text = TERM THEN OutCols(toks, j + 1)
             ELSE IF t.text = SPLIT
             THEN <<Column(j, <<"(">> \o info \o <<")", "a">>),
                    Column(j, <<"(">> \o info \o <<")", "b">>)>> \o OutCols(toks, j + 1)
             ELSE IF t.text = MERGE /\ MergeRun(toks, j) >= 2
             THEN <<Column(j, MergedInfo(toks, j, MergeRun(toks, j)))>>
                      \o OutCols(toks, j + MergeRun(toks, j))
             ELSE IF /\ t.text = XCH /\ j < Len(toks)
                     /\ toks[j + 1].text = XCH /\ toks[j + 1].spineinfo # <<>>
             THEN <<Column(j + 1, toks[j + 1].spineinfo), Column(j, info)>>
                      \o OutCols(toks, j + 2)
             ELSE IF t.text = ADD
             THEN <<Column(j, info), FreshColumn>> \o OutCols(toks, j + 1)
             ELSE <<Column(j, info)>> \o OutCols(toks, j + 1)

lineHasSpines(ln) == hasSpines(LineText(ln))

\* the tokens of line i take their spine info from the columns cols; an
\* exclusive interpretation opens the next unused track
RECURSIVE AssignTokens(_, _, _, _, _)
AssignTokens(toks, cols, j, i, st) ==
    IF j > Len(toks) THEN st
    ELSE IF toks[j].text = XS
    THEN LET legal == cols = <<>> \/ (j <= Len(cols) /\ cols[j].fresh)
         IN  AssignTokens(toks, cols, j + 1, i,
                 [toks |-> [st.toks EXCEPT ![j].spineinfo = ToDecimal(Len(st.starts))],
                  starts |-> Append(st.starts, <<i, j>>),
                  bad |-> st.bad \/ ~legal])
    ELSE IF j <= Len(cols) /\ ~cols[j].fresh
    THEN AssignTokens(toks, cols, j + 1, i,
             [st EXCEPT !.toks[j].spineinfo = cols[j].info])
    ELSE AssignTokens(toks, cols, j + 1, i, [st EXCEPT !.bad = TRUE])

RECURSIVE SpineWalk(_, _, _)
SpineWalk(lines, i, st) ==
    IF i > Len(lines) THEN st
    ELSE IF ~lineHasSpines(lines[i]) THEN SpineWalk(lines, i + 1, st)
    ELSE LET a == AssignTokens(lines[i].tokens, st.cols, 1, i,
                      [toks |-> lines[i].tokens, starts |-> st.starts,
                       bad |-> Len(st.cols) > Len(lines[i].tokens)])
         IN  SpineWalk(lines, i + 1,
                 [lines |-> [st.lines EXCEPT ![i].tokens = a.toks],
                  cols |-> OutCols(a.toks, 1),
                  starts |-> a.starts,
                  errors |-> st.errors + IF a.bad THEN 1 ELSE 0])

analyzeSpines(lines) ==
    SpineWalk(lines, 1, [lines |-> lines, cols |-> <<>>, starts |-> NoTrackStarts, errors |-> 0])

\* token j of line n continues a token of line p
Continues(lines, p, n, j) ==
    LET cols == OutCols(lines[p].tokens, 1)
    IN  j <= Len(cols) /\ ~cols[j].fresh /\ lines[n].tokens[j].text # XS

\* a variant that sets the prev of the next line's tokens only
stitchLinesTogether_PrevOnly(lines, p, n) ==
    LET cols == OutCols(lines[p].tokens, 1)
        ntoks == [j \in 1..Len(lines[n].tokens) |->
                    IF Continues(lines, p, n, j)
                    THEN [lines[n].tokens[j] EXCEPT !.prev = @ \cup {<<p, cols[j].src>>}]
                    ELSE lines[n].tokens[j]]
    IN  [lines EXCEPT ![n].tokens = ntoks]

\* links the tokens of line n to the tokens of line p they continue
stitchLinesTogether(lines, p, n) ==
    LET cols == OutCols(lines[p].tokens, 1)
        ntoks == [j \in 1..Len(lines[n].tokens) |->
                    IF Continues(lines, p, n, j)
                    THEN [lines[n].tokens[j] EXCEPT !.prev = @ \cup {<<p, cols[j].src>>}]
                    ELSE lines[n].tokens[j]]
        ptoks == [k \in 1..Len(lines[p].tokens) |->
                    [lines[p].tokens[k] EXCEPT !.next = @ \cup
                        {<<n, j>> : j \in {jj \in 1..Len(lines[n].tokens) :
                                             Continues(lines, p, n, jj) /\ cols[jj].src = k}}]]
    IN  [lines EXCEPT ![n].tokens = ntoks, ![p].tokens = ptoks]

\* stitches each line with spines to the line with spines before it (p)
RECURSIVE LinkWalk(_, _, _)
LinkWalk(lines, i, p) ==
    IF i > Len(lines) THEN lines
    ELSE IF ~lineHasSpines(lines[i]) THEN LinkWalk(lines, i + 1, p)
    ELSE LinkWalk(IF p = 0 THEN lines ELSE stitchLinesTogether(lines, p, i), i + 1, i)

analyzeLinks(lines) == LinkWalk(lines, 1, 0)

analyzeFileTracks(lines) ==
    [i \in 1..Len(lines) |->
        [lines[i] EXCEPT !.tokens = analyzeTracks(LineText(lines[i]), @)]]

getMaxTrack(starts) == Len(starts) - 1

\* the smallest positive token duration of the line, 0 without one
LineDuration(ln) ==
    LET D == {TokenDuration(ln.tokens[j].text) : j \in 1..Len(ln.tokens)} \ {0}
    IN  IF D = {} THEN 0 ELSE CHOOSE d \in D : \A e \in D : d <= e

RECURSIVE RhythmWalk(_, _, _)
RhythmWalk(lines, i, sum) ==
    IF i > Len(lines) THEN lines
    ELSE LET d == LineDuration(lines[i])
             l == setDurationFromStart(setDuration(lines[i], d), sum)
         IN  RhythmWalk([lines EXCEPT ![i] = [l EXCEPT !.gate = TRUE]], i + 1, sum + l.duration)

\* forward pass: the duration since the last barline, reset after a barline
RECURSIVE FromBarlineWalk(_, _, _)
FromBarlineWalk(lines, i, sum) ==
    IF i > Len(lines) THEN lines
    ELSE LET l == setDurationFromBarline(lines[i], sum)
         IN  FromBarlineWalk([lines EXCEPT ![i] = l], i + 1,
                 IF isBarline(LineText(l)) THEN 0 ELSE sum + l.duration)

\* backward pass: the duration up to the next barline, reset at a barline
RECURSIVE ToBarlineWalk(_, _, _)
ToBarlineWalk(lines, i, sum) ==
    IF i < 1 THEN lines
    ELSE LET l == setDurationToBarline(lines[i], sum + lines[i].duration)
         IN  ToBarlineWalk([lines EXCEPT ![i] = l], i - 1,
                 IF isBarline(LineText(l)) THEN 0 ELSE sum + lines[i].duration)

analyzeRhythm(lines) ==
    LET r == RhythmWalk(lines, 1, 0)
    IN  ToBarlineWalk(FromBarlineWalk(r, 1, 0), Len(r), 0)

InitFile ==
    /\ Construct(<<>>)
    /\ m_rhythm_analyzed = FALSE
    /\ hist = <<>>
    /\ text0 = text
    /\ tokens0 = m_tokens
    /\ tabs0 = m_tabs
    /\ CsvIdle
    /\ TrackIdle
    /\ RhythmIdle
    /\ m_lines = <<>>
    /\ m_trackstarts = NoTrackStarts
    /\ m_analyses = NoAnalyses
    /\ m_parseError = FALSE
    /\ OtherIdle

\* a line is appended to a file that has not been analysed
AppendLine ==
    /\ ~m_analyses.m_structure_analyzed
    /\ Len(m_lines) < MaxLines
    /\ analyzeSpines(m_lines).errors < MaxErrors
    /\ \E row \in FileRows : m_lines' = Append(m_lines, FileLine(row))
    /\ UNCHANGED <<m_trackstarts, m_analyses, m_parseError>>
    /\ UNCHANGED <<lineVars, csvVars, trackVars, rhythmVars, otherVars>>

\* the structure of the file is analysed: spines, links, tracks
AnalyzeStructure ==
    /\ ~m_analyses.m_structure_analyzed
    /\ LET sp == analyzeSpines(m_lines) IN
         /\ m_lines' = analyzeFileTracks(analyzeLinks(sp.lines))
         /\ m_trackstarts' = sp.starts
         /\ m_parseError' = (sp.errors > 0)
    /\ m_analyses' = [m_analyses EXCEPT !.m_structure_analyzed = TRUE]
    /\ UNCHANGED <<lineVars, csvVars, trackVars, rhythmVars, otherVars>>

\* the durations are propagated through the lines of the file
AnalyzeRhythm ==
    /\ m_analyses.m_structure_analyzed
    /\ ~m_analyses.m_rhythm_analyzed
    /\ m_lines' = analyzeRhythm(m_lines)
    /\ m_analyses' = [m_analyses EXCEPT !.m_rhythm_analyzed = TRUE]
    /\ UNCHANGED <<m_trackstarts, m_parseError>>
    /\ UNCHANGED <<lineVars, csvVars, trackVars, rhythmVars, otherVars>>

NextFile ==
    \/ AppendLine
    \/ AnalyzeStructure
    \/ AnalyzeRhythm

SpecFile == InitFile /\ [][NextFile]_vars

-----------------------------------------------------------------------------
(* isTerminator *)

\* HumdrumToken::isTerminator: the token is the spine terminator "*-"
isTerminatorToken(tok) == tok.text = <<"*", "-">>

\* HumdrumLine::isTerminator; nullderef is the outcome of calling
\* isTerminator through a NULL token pointer
isTerminator(s, tokens, nullderef) ==
    IF getTokenCount(tokens) = 0
    THEN equalChar(s, 1, "!") /\ equalChar(s, 0, "*")
    ELSE \A i \in 1..Len(tokens) :
            IF tokens[i].valid THEN isTerminatorToken(tokens[i]) ELSE nullderef

TermRows ==
    { <<"*", "-">>,
      <<"*", "-", TAB, "*", "-">>,
      <<"*", "-", TAB, TAB, "*", "-">>,
      <<"*", "-", TAB, "*", "-", TAB, "*", "-">>,
      <<"*", "-", TAB, "*">>,
      <<"*", TAB, "*", "-">>,
      <<"*", "-", TAB, "*", "a">>,
      <<"*", "!">>,
      <<"*", "!", TAB, "*", "-">>,
      <<"*", "-", "a">>,
      <<"*", "*", "a">>,
      <<"*">>,
      <<"a">>,
      <<"=", "1">>,
      <<"!", "a">> }

InitTerm ==
    /\ \E row \in TermRows : Construct(row)
    /\ m_rhythm_analyzed = FALSE
    /\ hist = <<>>
    /\ text0 = text
    /\ tokens0 = m_tokens
    /\ tabs0 = m_tabs
    /\ CsvIdle
    /\ TrackIdle
    /\ RhythmIdle
    /\ FileIdle
    /\ OtherIdle

SpecTerm == InitTerm /\ [][Next]_vars

-----------------------------------------------------------------------------
(* Copy construction and assignment: this line is A, other is B *)

AssignRows ==
    { <<"a">>,
      <<"a", TAB, "a">>,
      <<"*", "-">>,
      <<"=", "1">>,
      <<"!", "!", "a">> }

\* duration, durationFromStart, durationFromBarline, durationToBarline of B:
\* as constructed, or as set by an analysis
OtherDurations == { <<-1, -1, HumNumDefault, HumNumDefault>>, <<1, 2, 0, 1>> }

\* new HumdrumToken(*line.m_tokens[i], this)
CopyToken(tok) == [tok EXCEPT !.owner = "this"]

CopyTokens(tokens) == [i \in 1..Len(tokens) |-> CopyToken(tokens[i])]

OtherLine(row, durs) ==
    LET r == createTokensFromLine(row)
    IN  [text |-> row, tokens |-> r.tokens, tabs |-> r.tabs, durations |-> durs]

InitAssign ==
    /\ \E row \in AssignRows : Construct(row)
    /\ \E row \in AssignRows, durs \in OtherDurations : other = OtherLine(row, durs)
    /\ m_rhythm_analyzed = FALSE
    /\ hist = <<>>
    /\ text0 = text
    /\ tokens0 = m_tokens
    /\ tabs0 = m_tabs
    /\ ConstructRhythm
    /\ analysis = NoAnalysis
    /\ call = NoCall
    /\ CsvIdle
    /\ TrackIdle
    /\ FileIdle

CopyMembers ==
    /\ m_duration' = other.durations[1]
    /\ m_durationFromStart' = other.durations[2]
    /\ m_durationFromBarline' = other.durations[3]
    /\ m_durationToBarline' = other.durations[4]
    /\ m_tokens' = CopyTokens(other.tokens)
    /\ m_tabs' = other.tabs
    /\ m_owner' = "NULL"

\* HumdrumLine::HumdrumLine(HumdrumLine& line) : string((string)line)
CopyConstruct ==
    /\ Len(hist) < MaxOps
    /\ hist' = Append(hist, "copy")
    /\ text' = other.text
    /\ CopyMembers
    /\ m_rhythm_analyzed' = FALSE
    /\ UNCHANGED <<Ghosts, analysis, call>>
    /\ UNCHANGED <<csvVars, trackVars, fileVars, otherVars>>

\* HumdrumLine::operator=(HumdrumLine& line): the string base is not assigned
OperatorAssign ==
    /\ Len(hist) < MaxOps
    /\ hist' = Append(hist, "operator=")
    /\ CopyMembers
    /\ UNCHANGED <<text, m_rhythm_analyzed, Ghosts, analysis, call>>
    /\ UNCHANGED <<csvVars, trackVars, fileVars, otherVars>>

NextAssign ==
    \/ CopyConstruct
    \/ OperatorAssign

SpecAssign == InitAssign /\ [][NextAssign]_vars

-----------------------------------------------------------------------------
(* setDuration *)

\* the durations an analysis may hand to setDuration
DurationArgs == {-2, -1, 0, 1, 3}

InitDuration == InitRhythm

\* the analysis computes the duration dur of this line and stores it with
\* setDuration(dur); analysis.duration keeps the value that was passed
SetDuration ==
    /\ Len(hist) < MaxOps
    /\ hist' = Append(hist, "setDuration")
    /\ \E dur \in DurationArgs :
         /\ analysis' = [analysis EXCEPT !.duration = dur]
         /\ m_duration' = setDuration(ThisLine, dur).duration
    /\ UNCHANGED <<text, m_tokens, m_tabs, m_rhythm_analyzed, Ghosts>>
    /\ UNCHANGED <<m_owner, m_durationFromStart, m_durationFromBarline,
                   m_durationToBarline, call>>
    /\ UNCHANGED <<csvVars, trackVars, fileVars, otherVars>>

NextDuration ==
    \/ SetDuration
    \/ SetOwner
    \/ AnalyzeRhythmStructure

SpecDuration == InitDuration /\ [][NextDuration]_vars

-----------------------------------------------------------------------------
(* getBarNumber *)

getFieldCount(tokens) == Len(tokens)

\* sscanf(tok->c_str(), "=%d", &output), called on a token that has a digit
\* at index 1: output is assigned only when the token starts with '='
ScanBarNumber(tok, output) ==
    IF At(tok, 0) = "=" THEN TrackDigits(tok, 2, DigitValue(At(tok, 1))) ELSE output

\* the loop over the tokens, from token i on
RECURSIVE BarNumberLoop(_, _, _)
BarNumberLoop(tokens, i, output) ==
    IF i >= getFieldCount(tokens) THEN -1
    ELSE LET tok == At(tokens, i).text IN
         IF Len(tok) < 2 THEN -1
         ELSE IF isdigit(At(tok, 1))
         THEN LET output1 == ScanBarNumber(tok, output) IN
              IF output1 >= 0 THEN output1
              ELSE BarNumberLoop(tokens, i + 1, output1)
         ELSE BarNumberLoop(tokens, i + 1, output)

getBarNumber(s, tokens) ==
    IF ~isBarline(s) THEN -1 ELSE BarNumberLoop(tokens, 0, -1)

BarRows ==
    { <<"=", "1">>,
      <<"=", "1", "2">>,
      <<"=", "0">>,
      <<"=", "1", "a">>,
      <<"=">>,
      <<"=", "=">>,
      <<"=", "a">>,
      <<"=", "a", TAB, "=", "2">>,
      <<"=", "1", TAB, "=", "2">>,
      <<"=", TAB, "=", "1">>,
      <<"=", "a", TAB, "a", "3">>,
      <<"=", "a", TAB, "=">>,
      <<"a", "1">>,
      <<"*", "1">>,
      <<"!", "=", "1">> }

InitBar ==
    /\ \E row \in BarRows : Construct(row)
    /\ m_rhythm_analyzed = FALSE
    /\ hist = <<>>
    /\ text0 = text
    /\ tokens0 = m_tokens
    /\ tabs0 = m_tabs
    /\ CsvIdle
    /\ TrackIdle
    /\ RhythmIdle
    /\ FileIdle
    /\ OtherIdle

SpecBar == InitBar /\ [][Next]_vars

-----------------------------------------------------------------------------
(* read, readString and the NoRhythm entry points of the base file class *)

\* the files that exist, by name, with their contents
Disk ==
    [name \in { <<"f">>, <<"a">> } |->
        IF name = <<"f">> THEN <<"a", "\n", "*", "-">> ELSE <<"=", "1", "\n">>]

\* what the entry points are called with: a file name or a text content
ReadArgs ==
    { <<"f">>,
      <<"a">>,
      <<"a", "\n", "*", "-">>,
      <<"*", "-">>,
      <<"=", "1", "\n">>,
      <<"a", TAB, "a", "\n", "a">> }

ArgKinds == {"cstr", "string"}

\* the rows of a text: one per newline-terminated stretch, and the rest
RECURSIVE SplitLines(_, _, _)
SplitLines(s, i, cur) ==
    IF i >= Len(s) THEN (IF Len(cur) > 0 THEN <<cur>> ELSE <<>>)
    ELSE IF At(s, i) = "\n" THEN <<cur>> \o SplitLines(s, i + 1, <<>>)
    ELSE SplitLines(s, i + 1, Append(cur, At(s, i)))

\* read(std::istream& contents): the rows of the stream
readStream(contents) == [ok |-> TRUE, lines |-> SplitLines(contents, 0, <<>>)]

\* readString(contents): the rows of the text itself
readString(contents) == readStream(contents)

\* read(filename): the rows of the file of that name, a failed load without it
read(filename) ==
    IF filename \in DOMAIN Disk THEN readStream(Disk[filename])
    ELSE [ok |-> FALSE, lines |-> <<>>]

\* bool readNoRhythm(filename) { return read(filename); }
readNoRhythm(filename) == read(filename)

\* bool readStringNoRhythm(contents) { return read(contents); }
readStringNoRhythm(contents) == read(contents)

InitRead ==
    /\ Construct(<<>>)
    /\ m_rhythm_analyzed = FALSE
    /\ hist = <<>>
    /\ text0 = text
    /\ tokens0 = m_tokens
    /\ tabs0 = m_tabs
    /\ csv \in ReadArgs
    /\ separator = <<>> /\ overload = "none" /\ fileText = <<>>
    /\ csvSt = NoLoop
    /\ TrackIdle
    /\ RhythmIdle
    /\ FileIdle
    /\ OtherIdle

\* the file after a load that returned r, called op through overload kind
Loaded(op, kind, r) ==
    /\ Len(hist) < MaxOps
    /\ hist' = Append(hist, op)
    /\ overload' = kind
    /\ m_lines' = r.lines
    /\ m_parseError' = ~r.ok
    /\ UNCHANGED <<text, m_tokens, m_tabs, m_rhythm_analyzed, Ghosts>>
    /\ UNCHANGED <<csv, separator, fileText, csvSt, m_trackstarts, m_analyses>>
    /\ UNCHANGED <<trackVars, rhythmVars, otherVars>>

Read ==
    \/ Loaded("read", "istream", readStream(csv))
    \/ \E kind \in ArgKinds : Loaded("read", kind, read(csv))

ReadString ==
    \E kind \in ArgKinds : Loaded("readString", kind, readString(csv))

ReadNoRhythm ==
    \/ Loaded("readNoRhythm", "istream", readStream(csv))
    \/ \E kind \in ArgKinds : Loaded("readNoRhythm", kind, readNoRhythm(csv))

ReadStringNoRhythm ==
    \E kind \in ArgKinds : Loaded("readStringNoRhythm", kind, readStringNoRhythm(csv))

NextRead ==
    \/ Read
    \/ ReadString
    \/ ReadNoRhythm
    \/ ReadStringNoRhythm

SpecRead == InitRead /\ [][NextRead]_vars

-----------------------------------------------------------------------------
(* Vocabulary of the properties, defined on the text alone *)

BeginsWith(s, p) == Len(s) >= Len(p) /\ SubSeq(s, 1, Len(p)) = p

\* m_tokens and m_tabs are the result of tokenizing the current text
Tokenized == hist = <<>> \/ hist[Len(hist)] = "createTokensFromLine"

\* the line was tokenized at construction and then regenerated once
Regenerated == hist = <<"createLineFromTokens">>

\* tokenized at construction, regenerated, tokenized again
RoundTrip == hist = <<"createLineFromTokens", "createTokensFromLine">>

\* n-th smallest element of a set of numbers
Nth(S, n) == CHOOSE x \in S : Cardinality({y \in S : y < x}) = n - 1

FieldStarts(s) == {i \in 1..Len(s) : s[i] # TAB /\ (i = 1 \/ s[i - 1] = TAB)}

FieldEnds(s) == {i \in 1..Len(s) : s[i] # TAB /\ (i = Len(s) \/ s[i + 1] = TAB)}

\* a row of non-empty fields separated by runs of tabs, not a global comment
FieldRow(s) ==
    /\ Len(s) > 0
    /\ ~BeginsWith(s, <<"!", "!">>)
    /\ s[1] # TAB
    /\ s[Len(s)] # TAB

ExpectedFields(s) ==
    [n \in 1..Cardinality(FieldStarts(s)) |->
        SubSeq(s, Nth(FieldStarts(s), n), Nth(FieldEnds(s), n))]

ExpectedWidths(s) ==
    [n \in 1..Cardinality(FieldStarts(s)) |->
        IF n < Cardinality(FieldStarts(s))
        THEN Nth(FieldStarts(s), n + 1) - Nth(FieldEnds(s), n) - 1
        ELSE 0]

AllTokensValid == \A i \in 1..Len(m_tokens) : m_tokens[i].valid

\* a row that starts with "!!" or does not end with a tab
Regenerable(s) ==
    \/ BeginsWith(s, <<"!", "!">>)
    \/ Len(s) = 0
    \/ s[Len(s)] # TAB

\* s with leading and trailing whitespace removed
Trimmed(s) ==
    LET keep == {i \in 1..Len(s) : ~(s[i] \in {" ", TAB})}
    IN  IF keep = {} THEN <<>>
        ELSE SubSeq(s, Nth(keep, 1), Nth(keep, Cardinality(keep)))

\* 1-based position of the first colon of s (s has a colon)
FirstColon(s) == Nth({i \in 1..Len(s) : s[i] = ":"}, 1)

HasColon(s) == \E i \in 1..Len(s) : s[i] = ":"

\* KEY and VALUE of a row of the form !!!KEY:VALUE
RecordKey(s) == SubSeq(s, 4, FirstColon(s) - 1)

RecordValue(s) == SubSeq(s, FirstColon(s) + 1, Len(s))

-----------------------------------------------------------------------------
(* Properties *)

\* C1: a non-empty row that does not begin with "!!" and consists of
\* non-empty fields separated by runs of tabs is tokenized into exactly
\* those fields, in order; the tab width stored after each field is the
\* length of the run that follows it, and the last width is 0.
Thm_C1 ==
    (Tokenized /\ FieldRow(text)) =>
        /\ AllTokensValid
        /\ TokenTexts(m_tokens) = ExpectedFields(text)
        /\ m_tabs = ExpectedWidths(text)

Witness_C1 ==
    /\ Tokenized
    /\ FieldRow(text)
    /\ Len(m_tokens) >= 2
    /\ \E i \in 1..Len(m_tabs) : m_tabs[i] >= 2

\* C2: tokenizing an empty row leaves exactly one token, a real token of
\* empty text: the token count is 1 and no entry of m_tokens is null.
Cex_C2 ==
    (Tokenized /\ Len(text) = 0) =>
        /\ getTokenCount(m_tokens) = 1
        /\ AllTokensValid
        /\ m_tokens[1].text = <<>>

\* C3 (as stated): for any row, tokenize, createLineFromTokens, tokenize
\* again gives the token texts and tab widths of the first tokenization.
Cex_C3 ==
    RoundTrip =>
        /\ TokenTexts(m_tokens) = TokenTexts(tokens0)
        /\ m_tabs = tabs0

\* C3 (amended): the same, for every row that begins with "!!" or does
\* not end with a tab.
Thm_C3 ==
    (RoundTrip /\ Regenerable(text0)) =>
        /\ TokenTexts(m_tokens) = TokenTexts(tokens0)
        /\ m_tabs = tabs0

Witness_C3 ==
    /\ RoundTrip
    /\ Regenerable(text0)
    /\ Len(tokens0) >= 2
    /\ \E i \in 1..Len(tabs0) : tabs0[i] >= 2

\* C4 (as stated): for any row, tokenizing it and calling
\* createLineFromTokens regenerates the text character for character.
Cex_C4 == Regenerated => text = text0

\* C4 (amended): the same, for every row that begins with "!!" or does
\* not end with a tab (multi-tab runs and a leading tab included).
Thm_C4 == (Regenerated /\ Regenerable(text0)) => text = text0

Witness_C4 ==
    /\ Regenerated
    /\ Regenerable(text0)
    /\ Len(text0) >= 2
    /\ text0[1] = TAB
    /\ Len(m_tokens) >= 2

\* C5: a row that begins with "!!" is tokenized into exactly one token
\* whose text is the whole row, tabs included.
Thm_C5 ==
    (Tokenized /\ BeginsWith(text, <<"!", "!">>)) =>
        /\ getTokenCount(m_tokens) = 1
        /\ m_tokens[1].valid
        /\ m_tokens[1].text = text

Witness_C5 ==
    /\ Tokenized
    /\ hist # <<>>
    /\ BeginsWith(text, <<"!", "!">>)
    /\ \E i \in 1..Len(text) : text[i] = TAB
    /\ Len(m_tokens) = 1

\* C6: exactly one of comment, interpretation, barline, data, empty holds
\* of every line text, and isGlobal is the negation of hasSpines.
Thm_C6 ==
    /\ Cardinality({k \in {"comment", "interp", "barline", "data", "empty"} :
            \/ k = "comment" /\ isComment(text)
            \/ k = "interp"  /\ isInterp(text)
            \/ k = "barline" /\ isBarline(text)
            \/ k = "data"    /\ isData(text)
            \/ k = "empty"   /\ isEmpty(text)}) = 1
    /\ isGlobal(text) = ~hasSpines(text)

Witness_C6 == isEmpty(text) /\ ~isData(text) /\ isGlobal(text)

\* C7: hasSpines is false exactly for the empty line and for lines that
\* begin with "!!"; every reference record is among the latter.
Thm_C7 ==
    /\ hasSpines(text) = ~(Len(text) = 0 \/ BeginsWith(text, <<"!", "!">>))
    /\ isReference(text) => (BeginsWith(text, <<"!", "!">>) /\ ~hasSpines(text))

Witness_C7 == isReference(text) /\ ~hasSpines(text) /\ Len(m_tokens) = 1

\* C8: for a global reference record !!!KEY:VALUE with a non-empty KEY,
\* getReferenceKey is KEY and getReferenceValue is VALUE without its
\* leading and trailing whitespace.
Cex_C8 ==
    (isGlobalReference(text) /\ Len(RecordKey(text)) > 0) =>
        /\ getReferenceKey(text) = RecordKey(text)
        /\ getReferenceValue(text) = Trimmed(RecordValue(text))

\* C9: a line that begins with "!!!" and has no colon, or has nothing but
\* whitespace between the "!!!" and its first colon, is not a reference
\* record.
Cex_C9 ==
    (/\ BeginsWith(text, <<"!", "!", "!">>)
     /\ \/ ~HasColon(text)
        \/ Trimmed(RecordKey(text)) = <<>>) =>
        /\ ~isGlobalReference(text)
        /\ ~isReference(text)

\* C10: whenever isSignifier holds, the line is a reference record and
\* its key begins with "RDF**".
Cex_C10 ==
    isSignifier(text) =>
        /\ isReference(text)
        /\ BeginsWith(getReferenceKey(text), <<"R", "D", "F", "*", "*">>)

\* number of quote characters before position p (1-based) of s
QuotesBefore(s, p) == Cardinality({j \in 1..(p - 1) : s[j] = QUOTE})

\* the separator occurrences of s outside quoted regions, taken from the
\* left without overlap: SepStarts(s, sep)[p] iff one starts at p
SepStarts(s, sep) ==
    LET cand(p) == /\ QuotesBefore(s, p) % 2 = 0
                   /\ p + Len(sep) - 1 <= Len(s)
                   /\ SubSeq(s, p, p + Len(sep) - 1) = sep
        m[p \in 0..Len(s)] ==
            IF p = 0 THEN FALSE
            ELSE cand(p) /\ \A q \in 1..(p - 1) : (q > p - Len(sep)) => ~m[q]
    IN  m

\* the row as the claim describes its conversion
CsvExpected(s, sep) ==
    LET starts == SepStarts(s, sep)
        covered(p) == \E q \in 1..(p - 1) : q > p - Len(sep) /\ starts[q]
        piece(p) ==
            IF s[p] = QUOTE
            THEN IF QuotesBefore(s, p) % 2 = 1 /\ p < Len(s) /\ s[p + 1] = QUOTE
                 THEN <<QUOTE>> ELSE <<>>
            ELSE IF starts[p] THEN <<TAB>>
            ELSE IF covered(p) THEN <<>>
            ELSE <<s[p]>>
        cat[p \in 0..Len(s)] == IF p = 0 THEN <<>> ELSE cat[p - 1] \o piece(p)
    IN  cat[Len(s)]

HasQuote(s) == \E i \in 1..Len(s) : s[i] = QUOTE

\* C11 (as stated): for every CSV row that does not begin with "!!" and
\* every non-empty separator, setLineFromCsv sets the text to the row with
\* the separators outside quotes replaced by one tab each, those inside
\* quotes kept, doubled quotes reduced to one and delimiting quotes removed.
Cex_C11 ==
    (overload = "string" /\ ~BeginsWith(csv, <<"!", "!">>) /\ Len(separator) > 0) =>
        text = CsvExpected(csv, separator)

\* C11 (amended): the same, for every non-empty row that does not end with
\* a carriage return and every non-empty separator without a quote character.
Thm_C11 ==
    (/\ overload = "string"
     /\ ~BeginsWith(csv, <<"!", "!">>)
     /\ Len(csv) > 0
     /\ csv[Len(csv)] # CR
     /\ Len(separator) > 0
     /\ ~HasQuote(separator)) =>
        text = CsvExpected(csv, separator)

Witness_C11 ==
    /\ overload = "string"
    /\ csv = <<",", QUOTE, ",", QUOTE>>
    /\ separator = <<",">>
    /\ text = <<TAB, ",">>

\* C12: the separator argument of every CSV entry point is honoured: the
\* const char* overload of setLineFromCsv gives the text the std::string
\* overload gives, and parseCsv reads as readStringCsv with that separator.
Cex_C12 ==
    /\ overload = "cstr" => text = setLineFromCsv(csv, separator, text0)
    /\ overload = "parseCsv" => fileText = readStringCsv(csv, separator)

\* the positions (1-based) of the first run of digits of s
FirstRun(s) ==
    LET D == {i \in 1..Len(s) : s[i] \in Digits}
    IN  IF D = {} THEN {}
        ELSE LET a == CHOOSE i \in D : \A j \in D : i <= j
             IN  {i \in D : \A j \in a..i : j \in D}

RECURSIVE Pow10(_)
Pow10(n) == IF n = 0 THEN 1 ELSE 10 * Pow10(n - 1)

RECURSIVE SumOver(_, _)
SumOver(S, f) ==
    IF S = {} THEN 0
    ELSE LET x == CHOOSE y \in S : TRUE IN f[x] + SumOver(S \ {x}, f)

\* the first decimal number appearing in s, 0 when s contains no digit
FirstNumber(s) ==
    LET R == FirstRun(s)
        last == IF R = {} THEN 0 ELSE CHOOSE i \in R : \A j \in R : j <= i
    IN  SumOver(R, [i \in R |-> DigitValue(s[i]) * Pow10(last - i)])

\* the tokens of the line that carry the track of token i
SameTrack(i) == {j \in 1..Len(m_address) : m_address[j].track = m_address[i].track}

\* C13: after analyzeTracks on a line with spines, each token's track is the
\* first decimal number of its spine info (0 without a digit); a track on one
\* token gives subtrack 0, a track on N > 1 tokens gives subtracks 1..N from
\* left to right; each token's subtrack count is N.
Thm_C13 ==
    (Len(hist) > 0 /\ hist[Len(hist)] = "analyzeTracks" /\ hasSpines(text)) =>
        \A i \in 1..Len(m_address) :
            /\ m_address[i].track = FirstNumber(m_address[i].spineinfo)
            /\ m_address[i].subtrackcount = Cardinality(SameTrack(i))
            /\ m_address[i].subtrack =
                   IF Cardinality(SameTrack(i)) = 1 THEN 0
                   ELSE Cardinality({j \in SameTrack(i) : j <= i})

Witness_C13 ==
    /\ hist = <<"analyzeTracks">>
    /\ hasSpines(text)
    /\ Len(m_address) = 3
    /\ m_address[1].spineinfo = <<"(", "1", ")", "a">>
    /\ m_address[2].spineinfo = <<"1", "0">>
    /\ m_address[3].spineinfo = <<"(", "1", ")", "b">>
    /\ m_address[1].subtrack = 1
    /\ m_address[2].track = 10 /\ m_address[2].subtrack = 0
    /\ m_address[3].subtrack = 2 /\ m_address[3].subtrackcount = 2

LastOp == IF Len(hist) = 0 THEN "none" ELSE hist[Len(hist)]

TokenSequenceOps == {"appendToken", "insertToken", "createTokensFromLine", "clear"}

Accessors ==
    {"getDuration", "getDurationFromStart", "getDurationToEnd",
     "getDurationFromBarline", "getDurationToBarline", "getBarlineDuration"}

\* C14: an operation that changes the token sequence (appendToken,
\* insertToken, createTokensFromLine, clear) on a line whose rhythm-analyzed
\* gate is set leaves the gate false.
Cex_C14 ==
    [][(hist' # hist /\ hist'[Len(hist')] \in TokenSequenceOps /\ m_rhythm_analyzed)
          => ~m_rhythm_analyzed']_vars

\* C15: a duration accessor called with the gate unset on a line that has an
\* owner invokes the owner's rhythm analysis before it returns; called with
\* the gate set it does not invoke it.
Thm_C15 ==
    call.op \in Accessors =>
        /\ (~call.gate0 /\ call.owner0 # "NULL") => call.invoked >= 1
        /\ call.gate0 => call.invoked = 0

Witness_C15 ==
    /\ Len(hist) = 2
    /\ hist[1] = "getDurationFromBarline" /\ hist[2] = "getBarlineDuration"
    /\ call.op = "getBarlineDuration"
    /\ call.gate0 /\ call.owner0 = "file" /\ call.invoked = 0
    /\ m_rhythm_analyzed

\* C16: a newly constructed line on which no propagation has run holds a
\* negative value in duration, durationFromStart, durationFromBarline and
\* durationToBarline.
Cex_C16 ==
    hist = <<>> =>
        /\ m_duration < 0
        /\ m_durationFromStart < 0
        /\ m_durationFromBarline < 0
        /\ m_durationToBarline < 0

\* C17: getBarlineDuration returns durationToBarline on a barline line and
\* durationFromBarline + durationToBarline on any other line; the scaled
\* overload returns that quantity times the scale.
Thm_C17 ==
    (LastOp = "getBarlineDuration" /\ call.op = "getBarlineDuration") =>
        call.ret = call.scale * (IF isBarline(text) THEN m_durationToBarline
                                 ELSE m_durationFromBarline + m_durationToBarline)

Witness_C17 ==
    /\ LastOp = "getBarlineDuration"
    /\ call.op = "getBarlineDuration"
    /\ call.scaled /\ call.scale = 2
    /\ ~isBarline(text)
    /\ m_durationFromBarline = 1 /\ m_durationToBarline = 3
    /\ call.ret = 8

\* the tokens of the file, as <<line, column>>
FileTokens ==
    UNION { {<<i, j>> : j \in 1..Len(m_lines[i].tokens)} : i \in 1..Len(m_lines) }

Tok(id) == m_lines[id[1]].tokens[id[2]]

SpinedTokens == {id \in FileTokens : lineHasSpines(m_lines[id[1]])}

\* C18: after stitching, for every token t whose next is u, u's prev is t,
\* and for every token u whose prev is t, t's next is u; an exclusive
\* interpretation token has no prev and a terminator token has no next.
Thm_C18 ==
    m_analyses.m_structure_analyzed =>
        \A t \in FileTokens :
            /\ \A u \in Tok(t).next : u \in FileTokens /\ t \in Tok(u).prev
            /\ \A u \in Tok(t).prev : u \in FileTokens /\ t \in Tok(u).next
            /\ Tok(t).text = XS => Tok(t).prev = {}
            /\ Tok(t).text = TERM => Tok(t).next = {}

Witness_C18 ==
    /\ m_analyses.m_structure_analyzed
    /\ ~m_parseError
    /\ Len(m_lines) = 4
    /\ Tok(<<1, 1>>).text = XS
    /\ Tok(<<2, 1>>).next = {<<3, 1>>, <<3, 2>>}
    /\ Tok(<<3, 1>>).text = MERGE
    /\ Tok(<<4, 1>>).text = TERM /\ Tok(<<4, 1>>).prev = {<<3, 1>>}

\* the largest track of a token on a line with spines, 0 without such a token
MaxTokenTrack ==
    LET T == {Tok(t).track : t \in SpinedTokens}
    IN  IF T = {} THEN 0 ELSE CHOOSE m \in T : \A x \in T : x <= m

TrackInvariant ==
    /\ Len(m_trackstarts) - 1 = getMaxTrack(m_trackstarts)
    /\ Len(m_trackstarts) - 1 = MaxTokenTrack
    /\ \A t \in SpinedTokens : Tok(t).track \in 1..getMaxTrack(m_trackstarts)

Thm_C20 ==
    m_analyses.m_rhythm_analyzed =>
        \A i \in 1..Len(m_lines) :
            m_lines[i].fromStart =
                IF i = 1 THEN 0 ELSE m_lines[i - 1].fromStart + m_lines[i - 1].duration

Witness_C20 ==
    /\ m_analyses.m_rhythm_analyzed
    /\ Len(m_lines) = 4
    /\ m_lines[2].duration = 2 /\ m_lines[3].duration = 1
    /\ m_lines[4].fromStart = 3

FileBarlines == {i \in 1..Len(m_lines) : isBarline(LineText(m_lines[i]))}

RECURSIVE DurationSum(_, _)
DurationSum(a, b) == IF a > b THEN 0 ELSE m_lines[a].duration + DurationSum(a + 1, b)

Cex_C22 == csvSt.steps <= Len(newcsvOf(csv))

\* C23: getReferenceKey and getReferenceValue return the empty string for
\* every line that is not a reference record, lines that begin with "!!!"
\* and have a space or tab before their first colon included.
Cex_C23 ==
    ~isReference(text) =>
        /\ getReferenceKey(text) = <<>>
        /\ getReferenceValue(text) = <<>>

\* C24: on a line that has an owning file getDurationToEnd() returns the
\* score duration of the file minus the durationFromStart of the line,
\* whether the call triggers the rhythm analysis or finds it done.
Cex_C24 ==
    (/\ LastOp = "getDurationToEnd"
     /\ call.op = "getDurationToEnd"
     /\ ~call.scaled
     /\ call.owner0 = "file") =>
        call.ret = analysis.score - m_durationFromStart

RECURSIVE SkipTabs(_)
SkipTabs(s) == IF Len(s) > 0 /\ s[1] = TAB THEN SkipTabs(Tail(s)) ELSE s

\* every tab-separated field of the text is "*-"
RECURSIVE AllFieldsTerminator(_)
AllFieldsTerminator(s) ==
    /\ Len(s) >= 2
    /\ s[1] = "*"
    /\ s[2] = "-"
    /\ \/ Len(s) = 2
       \/ /\ s[3] = TAB
          /\ AllFieldsTerminator(SkipTabs(SubSeq(s, 3, Len(s))))

\* C25: isTerminator() depends on the text alone: with zero tokens and with
\* the tokens of the text it is true exactly when every field is "*-".
Cex_C25 ==
    \A nullderef \in BOOLEAN :
        isTerminator(text, m_tokens, nullderef) <=> AllFieldsTerminator(text)

\* C26: after any sequence of createTokensFromLine, appendToken and
\* insertToken every token of the line has that line as its owner.
Cex_C26 ==
    \A i \in 1..Len(m_tokens) :
        m_tokens[i].valid => m_tokens[i].owner = "this"

\* C27: after A = B, and after constructing A as a copy of B, the text of A
\* is the text of B and the token texts and tab widths of A are those of B.
Cex_C27 ==
    LastOp \in {"operator=", "copy"} =>
        /\ text = other.text
        /\ TokenTexts(m_tokens) = TokenTexts(other.tokens)
        /\ m_tabs = other.tabs

\* C28: after setDuration(d) the stored duration is d when d is not negative
\* and zero when d is negative; it is never negative after a call.
Thm_C28 ==
    LastOp \in {"setDuration", "analyzeRhythmStructure"} =>
        /\ m_duration = (IF analysis.duration >= 0 THEN analysis.duration ELSE 0)
        /\ m_duration >= 0

Witness_C28 ==
    /\ LastOp = "setDuration"
    /\ analysis.duration < 0
    /\ m_duration = 0

\* the tokens (1-based) that have a digit immediately after a leading '='
NumberedTokens(tokens) ==
    {i \in 1..Len(tokens) :
        /\ Len(tokens[i].text) >= 2
        /\ tokens[i].text[1] = "="
        /\ isdigit(tokens[i].text[2])}

\* C29: getBarNumber() is -1 on a line that is not a barline; on a barline
\* it is the number after '=' in the leftmost token that has a digit right
\* after '=', and -1 only when no token has such a number.
Cex_C29 ==
    getBarNumber(text, m_tokens) =
        IF ~isBarline(text) \/ NumberedTokens(m_tokens) = {} THEN -1
        ELSE LET S == NumberedTokens(m_tokens)
                 first == CHOOSE i \in S : \A j \in S : i <= j
             IN  FirstNumber(m_tokens[first].text)

\* C30: readStringNoRhythm(contents) loads the file as readString(contents)
\* does, in both overloads, and readNoRhythm(x) loads it as read(x) does.
Cex_C30 ==
    /\ LastOp = "readStringNoRhythm" =>
          /\ m_lines = readString(csv).lines
          /\ m_parseError = ~readString(csv).ok
    /\ LastOp = "readNoRhythm" =>
          LET r == IF overload = "istream" THEN readStream(csv) ELSE read(csv)
          IN  m_lines = r.lines /\ m_parseError = ~r.ok

====
